---- MODULE Spec2Model ----
(***************************************************************************)
(* The spectral patch dataset pipeline of vocal-remover:                   *)
(*   lib/dataset.py     train_val_split, mixup_generator, get_oracle_data, *)
(*                      make_padding, make_training_set,                   *)
(*                      make_validation_set                                *)
(*   lib/spec_utils.py  cache_or_load                                      *)
(* Every function is one action.  pc names the function a behaviour is     *)
(* about, args holds the arguments of the call, ret what it returned.      *)
(* The time axis of a spectrogram is modelled frame by frame; the channel  *)
(* and frequency axes are never sliced by this code and are left out.      *)
(* Real-valued rates are exact rationals num/den.                          *)
(***************************************************************************)
EXTENDS Integers, Sequences, FiniteSets, TLC

VARIABLES
  pc,      \* the function applied in this behaviour, then "done"
  args,    \* the arguments of the current (last) call
  ret,     \* what the last call returned
  npy,     \* the spectrogram cache on disk: artifact path -> spectrogram
  npz,     \* the validation patches on disk: artifact path -> patch
  wav,     \* the audio files on disk: path -> number of samples
  trace,   \* what the last call did: decodes, writes, per-pair geometry
  prev,    \* the earlier calls, oldest first: [args, ret, trace] each
  calls    \* number of calls made so far

disk == <<npy, npz, wav>>

vars == <<pc, args, ret, npy, npz, wav, trace, prev, calls>>

(***************************************************************************)
(* Bounds of the model.                                                    *)
(***************************************************************************)
RateDen == 4      \* rates are the rationals 0/RateDen .. RateDen/RateDen
MaxWidth == 520   \* make_padding: widths 0 .. MaxWidth
MaxBatch == 3     \* get_oracle_data: batch sizes 0 .. MaxBatch
MaxLoss == 2      \* get_oracle_data: losses 0 .. MaxLoss
MaxMix == 3       \* mixup_generator: batch sizes 0 .. MaxMix
MaxValue == 1     \* mixup_generator: sample values 0 .. MaxValue
LamDen == 2       \* mixup_generator: lam is one of 0/LamDen .. LamDen/LamDen
MaxSamples == 4   \* audio files hold 0 .. MaxSamples samples
MaxCrop == 4      \* cropsize 1 .. MaxCrop
MaxLoads == 2     \* cache_or_load calls per behaviour
MaxCalls == 3     \* make_validation_set runs per behaviour

Min(a, b) == IF a < b THEN a ELSE b
Max(a, b) == IF a < b THEN b ELSE a

\* int() of the non-negative rational num/den
IntOf(num, den) == num \div den

\* ceil of the positive rational num/den
CeilDiv(num, den) == (num + den - 1) \div den

Range(s) == {s[i] : i \in DOMAIN s}

\* the sequences over S without repetition, of length at most n
RECURSIVE Arrangements(_, _)
Arrangements(S, n) ==
  IF n = 0 THEN {<<>>}
  ELSE {<<>>} \cup {<<x>> \o t : x \in S, t \in Arrangements(S, n - 1)}

InjectiveSeqs(S, n) ==
  {s \in Arrangements(S, n) : Cardinality(Range(s)) = Len(s)}

\* all orderings of the sequence s
Shuffles(s) ==
  {[i \in 1..Len(s) |-> s[p[i]]] : p \in {q \in [1..Len(s) -> 1..Len(s)] :
                                          Cardinality(Range(q)) = Len(s)}}

(***************************************************************************)
(* Python slicing s[lo:hi]: a negative bound counts from the end, and both *)
(* bounds are clamped to the sequence.  -0 is 0.                           *)
(***************************************************************************)
PyBound(i, n) == IF i < 0 THEN Max(i + n, 0) ELSE Min(i, n)

PySlice(s, lo, hi) ==
  LET a == PyBound(lo, Len(s))
      b == PyBound(hi, Len(s))
  IN IF a < b THEN SubSeq(s, a + 1, b) ELSE <<>>

(***************************************************************************)
(* Files.  A file name is a basename and an extension; FileNames lists the *)
(* names of the data set in sorted order.  a.mp3 and a.wav share a         *)
(* basename; notes.txt is no audio file.                                   *)
(***************************************************************************)
FileNames ==
  << [base |-> "a", ext |-> ".mp3"],
     [base |-> "a", ext |-> ".wav"],
     [base |-> "b", ext |-> ".wav"],
     [base |-> "c", ext |-> ".m4a"],
     [base |-> "notes", ext |-> ".txt"] >>

input_exts == {".wav", ".m4a", ".3gp", ".oma", ".mp3", ".mp4"}

Join(dir, fname) == [dir |-> dir, base |-> fname.base, ext |-> fname.ext]

\* sorted(): the names of the set S (of indices into FileNames), ascending
RECURSIVE Sorted(_)
Sorted(S) ==
  IF S = {} THEN <<>>
  ELSE LET m == CHOOSE x \in S : \A y \in S : x <= y
       IN <<m>> \o Sorted(S \ {m})

\* zip(): pairs up to the shorter list
Zip(xs, ys) == [i \in 1..Min(Len(xs), Len(ys)) |-> <<xs[i], ys[i]>>]

\* mix_listing, inst_listing: os.listdir of the two directories
make_pair(mix_listing, inst_listing) ==
  LET audioOf(S) == {i \in S : FileNames[i].ext \in input_exts}
      X_sorted == Sorted(audioOf(mix_listing))
      y_sorted == Sorted(audioOf(inst_listing))
      X_list == [i \in 1..Len(X_sorted) |-> Join("mix", FileNames[X_sorted[i]])]
      y_list == [i \in 1..Len(y_sorted) |-> Join("inst", FileNames[y_sorted[i]])]
  IN Zip(X_list, y_list)

(***************************************************************************)
(* train_val_split                                                         *)
(***************************************************************************)
\* the two slices of the empty-validation-list branch
SplitTrainSlice(filelist, val_size) == PySlice(filelist, 0, 0 - val_size)

SplitValSlice(filelist, val_size) ==
  PySlice(filelist, 0 - val_size, Len(filelist))

\* shuffled: the file list after random.shuffle
train_val_split(shuffled, val_rate, val_filelist) ==
  IF Len(val_filelist) = 0
  THEN LET val_size == IntOf(Len(shuffled) * val_rate, RateDen)
       IN [train |-> SplitTrainSlice(shuffled, val_size),
           val |-> SplitValSlice(shuffled, val_size)]
  ELSE [train |-> SelectSeq(shuffled, LAMBDA pair : pair \notin Range(val_filelist)),
        val |-> val_filelist]

AllPairs == {<<Join("mix", FileNames[i]), Join("inst", FileNames[i])>> :
               i \in DOMAIN FileNames}

Idle == <<>>

InitSplit ==
  /\ pc = "train_val_split"
  /\ args \in [mix_listing : SUBSET DOMAIN FileNames,
               inst_listing : SUBSET DOMAIN FileNames,
               val_rate : 0..RateDen,
               val_filelist : Arrangements(AllPairs, 1)]
  /\ args.inst_listing \in {args.mix_listing, args.mix_listing \ {1}}
  /\ ret = Idle /\ npy = Idle /\ npz = Idle /\ wav = Idle
  /\ trace = Idle /\ prev = Idle /\ calls = 0

TrainValSplit ==
  /\ pc = "train_val_split"
  /\ \E shuffled \in Shuffles(make_pair(args.mix_listing, args.inst_listing)) :
       /\ ret' = train_val_split(shuffled, args.val_rate, args.val_filelist)
       /\ trace' = [filelist |-> shuffled]
  /\ pc' = "done"
  /\ calls' = calls + 1
  /\ UNCHANGED <<args, disk, prev>>

SpecSplit == InitSplit /\ [][TrainValSplit]_vars

\* C1 (as claimed): with an empty explicit validation list, train and
\* validation share no pair and the validation list has exactly
\* floor(len(filelist) * val_rate) entries, also when that number is 0.
C1_SplitSizes ==
  (pc = "done" /\ Len(args.val_filelist) = 0) =>
     /\ Range(ret.train) \cap Range(ret.val) = {}
     /\ Len(ret.val) = (Len(trace.filelist) * args.val_rate) \div RateDen

(***************************************************************************)
(* make_padding                                                            *)
(***************************************************************************)
PaddingRightNoLeft(width, roi_size, left) == roi_size - (width % roi_size)

PaddingRight(width, roi_size, left) == roi_size - (width % roi_size) + left

make_padding(width, cropsize, offset) ==
  LET left == offset
      roi0 == cropsize - left * 2
      roi_size == IF roi0 = 0 THEN cropsize ELSE roi0
      right == PaddingRight(width, roi_size, left)
  IN [left |-> left, right |-> right, roi_size |-> roi_size]

\* the crop sizes of the padding runs: the small ones of the tiling runs
\* and the sizes training uses
PadCropSizes == (1..MaxCrop) \cup {64, 128, 256}

\* offsets 0 .. cropsize/2: the last one, when cropsize is even, takes the
\* roi_size == 0 branch
InitPadding ==
  /\ pc = "make_padding"
  /\ args \in [width : 0..MaxWidth, cropsize : PadCropSizes, offset : 0..128]
  /\ 2 * args.offset <= args.cropsize
  /\ ret = Idle /\ npy = Idle /\ npz = Idle /\ wav = Idle
  /\ trace = Idle /\ prev = Idle /\ calls = 0

MakePadding ==
  /\ pc = "make_padding"
  /\ ret' = make_padding(args.width, args.cropsize, args.offset)
  /\ pc' = "done"
  /\ calls' = calls + 1
  /\ UNCHANGED <<args, disk, trace, prev>>

SpecPadding == InitPadding /\ [][MakePadding]_vars

PaddingCase ==
  /\ pc = "done"
  /\ args.width >= 1
  /\ 2 * args.offset < args.cropsize

padded_width == args.width + ret.left + ret.right

\* C2 (as claimed): for width >= 1 and 0 <= offset < cropsize/2, roi_size > 0
\* and the padded width is an exact multiple of roi_size plus left.
C2_PaddedMultiplePlusLeft ==
  PaddingCase =>
     /\ ret.roi_size > 0
     /\ (padded_width - ret.left) % ret.roi_size = 0

\* C2 (amended): for width >= 1 and 0 <= offset < cropsize/2, roi_size > 0,
\* roi_size = cropsize - 2 * offset, and the padded width is an exact
\* multiple of roi_size plus 2 * left (left on either side).
C2_PaddedMultiplePlusTwoLeft ==
  PaddingCase =>
     /\ ret.roi_size > 0
     /\ ret.roi_size = args.cropsize - 2 * args.offset
     /\ (padded_width - 2 * ret.left) % ret.roi_size = 0
     /\ padded_width > args.width + 2 * ret.left

\* a call with a non-zero offset that does not divide into roi_size, on a
\* width that is no multiple of roi_size
C2_Witness ==
  /\ PaddingCase
  /\ args.cropsize = 64
  /\ args.offset = 5
  /\ args.width = 100
  /\ ret = [left |-> 5, right |-> 13, roi_size |-> 54]

(***************************************************************************)
(* get_oracle_data                                                         *)
(***************************************************************************)
Reverse(s) == [i \in 1..Len(s) |-> s[Len(s) + 1 - i]]

\* np.argsort: the orders of the indices that sort the losses ascending.
\* The default sort is not stable, so equal losses come in any order.
ArgSorts(loss) ==
  {o \in Shuffles([i \in 1..Len(loss) |-> i]) :
     \A i \in 1..(Len(o) - 1) : loss[o[i]] <= loss[o[i + 1]]}

OraclePoolAscending(order, k) == PySlice(order, 0, k)

\* np.argsort(instance_loss)[::-1][:k]
OraclePool(order, k) == PySlice(Reverse(order), 0, k)

\* np.random.choice(pool, n, replace=False): the samples it can return;
\* none (a ValueError) when the pool holds fewer than n entries
Choices(pool, n) ==
  IF n > Len(pool) THEN {}
  ELSE {c \in InjectiveSeqs(Range(pool), n) : Len(c) = n}

\* rates are num/RateDen: 1 / (1 - drop) is RateDen / (RateDen - drop)
OracleK(N, oracle_rate, oracle_drop_rate) ==
  IntOf(N * oracle_rate * RateDen, RateDen * (RateDen - oracle_drop_rate))

OracleN(N, oracle_rate) == IntOf(N * oracle_rate, RateDen)

InitOracle ==
  /\ pc = "get_oracle_data"
  /\ \E N \in 0..MaxBatch :
       args \in [X : {[i \in 1..N |-> <<"X", i>>]},
                 y : {[i \in 1..N |-> <<"y", i>>]},
                 instance_loss : [1..N -> 0..MaxLoss],
                 oracle_rate : 0..RateDen,
                 oracle_drop_rate : 0..(RateDen - 1)]
  /\ ret = Idle /\ npy = Idle /\ npz = Idle /\ wav = Idle
  /\ trace = Idle /\ prev = Idle /\ calls = 0

GetOracleData ==
  /\ pc = "get_oracle_data"
  /\ LET k == OracleK(Len(args.X), args.oracle_rate, args.oracle_drop_rate)
         n == OracleN(Len(args.X), args.oracle_rate)
     IN \E order \in ArgSorts(args.instance_loss) :
          LET pool == OraclePool(order, k)
          IN /\ trace' = [k |-> k, n |-> n, pool |-> pool]
             /\ IF Choices(pool, n) = {}
                THEN ret' = [raised |-> "ValueError", idx |-> <<>>,
                             oracle_X |-> <<>>, oracle_y |-> <<>>]
                ELSE \E idx \in Choices(pool, n) :
                       ret' = [raised |-> "",
                               idx |-> idx,
                               oracle_X |-> [j \in 1..n |-> args.X[idx[j]]],
                               oracle_y |-> [j \in 1..n |-> args.y[idx[j]]]]
  /\ pc' = "done"
  /\ calls' = calls + 1
  /\ UNCHANGED <<args, disk, prev>>

SpecOracle == InitOracle /\ [][GetOracleData]_vars

\* instance i is among the k highest-loss instances: fewer than k
\* instances have a strictly higher loss
AmongTop(i, k) ==
  Cardinality({j \in DOMAIN args.instance_loss :
                 args.instance_loss[j] > args.instance_loss[i]}) < k

\* C3: with k = floor(N * oracle_rate / (1 - oracle_drop_rate)) and
\* n = floor(N * oracle_rate), the candidate pool is never smaller than n
\* and the call returns exactly n pairwise distinct indices, each among the
\* k highest-loss instances (and oracle_X, oracle_y are the entries there).
C3_OraclePoolValid ==
  pc = "done" =>
     /\ trace.k = (Len(args.X) * args.oracle_rate) \div (RateDen - args.oracle_drop_rate)
     /\ trace.n = (Len(args.X) * args.oracle_rate) \div RateDen
     /\ Len(trace.pool) >= trace.n
     /\ ret.raised = ""
     /\ Len(ret.idx) = trace.n
     /\ Cardinality(Range(ret.idx)) = trace.n
     /\ \A j \in 1..Len(ret.idx) :
          /\ ret.idx[j] \in Range(trace.pool)
          /\ AmongTop(ret.idx[j], trace.k)
          /\ ret.oracle_X[j] = args.X[ret.idx[j]]
          /\ ret.oracle_y[j] = args.y[ret.idx[j]]

\* a call that samples one of the two highest-loss instances out of three
C3_Witness ==
  /\ pc = "done"
  /\ Len(args.X) = 3
  /\ args.instance_loss = <<0, 2, 1>>
  /\ trace.k = 2 /\ trace.n = 1
  /\ trace.pool = <<2, 3>>
  /\ ret.idx = <<3>>
  /\ ret.oracle_X = <<args.X[3]>>

(***************************************************************************)
(* mixup_generator                                                         *)
(* Values are exact rationals over a common denominator: a batch is a      *)
(* sequence of numerators and the denominator den, which each mixing step  *)
(* multiplies by LamDen.                                                   *)
(***************************************************************************)
\* X[a] = lam * X[a] + (1 - lam) * X[b] with lam = lam_num / LamDen
MixEntry(X, a, b, lam_num) ==
  [j \in DOMAIN X |->
     IF j = a THEN lam_num * X[a] + (LamDen - lam_num) * X[b]
     ELSE LamDen * X[j]]

\* the loop body for index i
MixStep(st, perm, lam, i) ==
  [X |-> MixEntry(st.X, perm[i], perm[i + 1], lam[i]),
   y |-> MixEntry(st.y, perm[i], perm[i + 1], lam[i]),
   den |-> st.den * LamDen]

\* the loop run from the last index down to the first
RECURSIVE MixLoopDown(_, _, _, _)
MixLoopDown(st, perm, lam, i) ==
  IF i > Len(perm) - 1 THEN st
  ELSE MixStep(MixLoopDown(st, perm, lam, i + 1), perm, lam, i)

\* for i in range(len(perm) - 1), from i on
RECURSIVE MixLoop(_, _, _, _)
MixLoop(st, perm, lam, i) ==
  IF i > Len(perm) - 1 THEN st
  ELSE MixLoop(MixStep(st, perm, lam, i), perm, lam, i + 1)

\* perm: np.random.permutation(len(X))[:int(len(X) * rate)]
\* lam: the draws of np.random.beta(alpha, alpha), one per loop index
mixup_generator(X, y, perm, lam) ==
  MixLoop([X |-> X, y |-> y, den |-> 1], perm, lam, 1)

InitMixup ==
  /\ pc = "mixup_generator"
  /\ \E N \in 0..MaxMix :
       args \in [X : [1..N -> 0..MaxValue],
                 y : {[i \in 1..N |-> i * i]},
                 rate : 0..RateDen]
  /\ ret = Idle /\ npy = Idle /\ npz = Idle /\ wav = Idle
  /\ trace = Idle /\ prev = Idle /\ calls = 0

MixupGenerator ==
  /\ pc = "mixup_generator"
  /\ LET N == Len(args.X)
         m == IntOf(N * args.rate, RateDen)
     IN \E permutation \in Shuffles([i \in 1..N |-> i]) :
          LET perm == PySlice(permutation, 0, m)
          IN \E lam \in [1..(Len(perm) - 1) -> 0..LamDen] :
               /\ ret' = mixup_generator(args.X, args.y, perm, lam)
               /\ trace' = [perm |-> perm, lam |-> lam]
  /\ pc' = "done"
  /\ calls' = calls + 1
  /\ UNCHANGED <<args, disk, prev>>

SpecMixup == InitMixup /\ [][MixupGenerator]_vars

\* the entry of the batch B0 at perm[i], mixed with the one at perm[i + 1],
\* over the denominator of the result
MixedOriginals(B0, i) ==
  (ret.den \div LamDen) *
    (trace.lam[i] * B0[trace.perm[i]] +
     (LamDen - trace.lam[i]) * B0[trace.perm[i + 1]])

MixedIndices == {trace.perm[i] : i \in 1..(Len(trace.perm) - 1)}

\* C8: every X[perm[i]], i < m - 1, ends as lam_i * X0[perm[i]] +
\* (1 - lam_i) * X0[perm[i+1]] of the batch X0 before the call, so it lies
\* between the two original entries; likewise y with the same lam_i; every
\* other entry is unchanged.
C8_MixupReadsOriginals ==
  pc = "done" =>
     /\ Len(trace.perm) = (Len(args.X) * args.rate) \div RateDen
     /\ \A i \in 1..(Len(trace.perm) - 1) :
          LET a == trace.perm[i]
              b == trace.perm[i + 1]
          IN /\ ret.X[a] = MixedOriginals(args.X, i)
             /\ ret.y[a] = MixedOriginals(args.y, i)
             /\ ret.X[a] >= ret.den * Min(args.X[a], args.X[b])
             /\ ret.X[a] <= ret.den * Max(args.X[a], args.X[b])
             /\ ret.y[a] >= ret.den * Min(args.y[a], args.y[b])
             /\ ret.y[a] <= ret.den * Max(args.y[a], args.y[b])
     /\ \A j \in DOMAIN args.X :
          j \notin MixedIndices =>
             /\ ret.X[j] = ret.den * args.X[j]
             /\ ret.y[j] = ret.den * args.y[j]

\* a call that mixes a chain of three entries: the entry at perm[2] is read
\* by the first step and replaced by the second
C8_Witness ==
  /\ pc = "done"
  /\ args.X = <<0, 1, 0>>
  /\ trace.perm = <<3, 2, 1>>
  /\ trace.lam = <<1, 1>>
  /\ ret.den = LamDen * LamDen
  /\ ret.X[2] # ret.den * args.X[2]
  /\ ret.X[3] # ret.den * args.X[3]

(***************************************************************************)
(* cache_or_load                                                           *)
(* A waveform is the file it was read from and its number of samples; a    *)
(* spectrogram is the file it was computed from, the file it was aligned   *)
(* with, the transform's parameters and its number of time frames.         *)
(***************************************************************************)
\* the parameter sets (sr, hop_length, n_fft) of the calls
Stfts == [sr : {44100}, hop_length : {1, 2}, n_fft : {2048}]

\* librosa.load
Load(path) == [src |-> path, samples |-> wav[path]]

\* both waveforms cut to the shorter one; the lag found by the cross-
\* correlation is taken to be 0 and no silence is trimmed
align_wave_head_and_tail(a, b) ==
  LET n == Min(a.samples, b.samples)
  IN <<[src |-> a.src, with |-> b.src, samples |-> n],
       [src |-> b.src, with |-> a.src, samples |-> n]>>

\* librosa.stft pads the signal at both ends (center=True): 1 + n // hop frames
get_spectrogram(X, hop_length, nfft) ==
  [src |-> X.src, with |-> X.with, hop_length |-> hop_length, n_fft |-> nfft,
   frames |-> 1 + (X.samples \div hop_length)]

\* os.path.join(os.path.dirname(path), outdir, basename + '.npy')
SpecPath(path, stft) ==
  [dir |-> path.dir, outdir |-> stft, base |-> path.base, ext |-> ".npy"]

SaveMixOnly(files, spec_mix_path, X, spec_inst_path, y) ==
  (spec_mix_path :> X) @@ files

\* np.save(spec_mix_path, X); np.save(spec_inst_path, y)
SaveBoth(files, spec_mix_path, X, spec_inst_path, y) ==
  (spec_inst_path :> y) @@ (spec_mix_path :> X) @@ files

\* files: the cache before the call.  The result holds the cache after it.
cache_or_load(files, mix_path, inst_path, stft) ==
  LET spec_mix_path == SpecPath(mix_path, stft)
      spec_inst_path == SpecPath(inst_path, stft)
  IN IF spec_mix_path \in DOMAIN files /\ spec_inst_path \in DOMAIN files
     THEN [raised |-> "", X |-> files[spec_mix_path], y |-> files[spec_inst_path],
           npy |-> files, decoded |-> {}, written |-> {}]
     ELSE IF mix_path \notin DOMAIN wav
     THEN [raised |-> "DecodeError", X |-> Idle, y |-> Idle,
           npy |-> files, decoded |-> {}, written |-> {}]
     ELSE IF inst_path \notin DOMAIN wav
     THEN [raised |-> "DecodeError", X |-> Idle, y |-> Idle,
           npy |-> files, decoded |-> {mix_path}, written |-> {}]
     ELSE LET aligned == align_wave_head_and_tail(Load(mix_path), Load(inst_path))
              X == get_spectrogram(aligned[1], stft.hop_length, stft.n_fft)
              y == get_spectrogram(aligned[2], stft.hop_length, stft.n_fft)
              saved == SaveBoth(files, spec_mix_path, X, spec_inst_path, y)
          IN [raised |-> "", X |-> X, y |-> y, npy |-> saved,
              decoded |-> {mix_path, inst_path},
              written |-> {spec_mix_path, spec_inst_path}]

\* the audio files of the data set: the first three names, in both
\* directories; c.m4a is listed nowhere on disk
OnDisk == 1..3

PairOf(i) == <<Join("mix", FileNames[i]), Join("inst", FileNames[i])>>

\* the audio on disk; samples[i] is the length of both files named i
WavFiles(samples) ==
  [path \in {Join(d, FileNames[i]) : d \in {"mix", "inst"}, i \in OnDisk} |->
     samples[CHOOSE i \in OnDisk : FileNames[i] = [base |-> path.base, ext |-> path.ext]]]

Record == [args |-> args, ret |-> ret, trace |-> trace]

InitCache ==
  /\ pc = "cache_or_load"
  /\ wav \in {WavFiles(samples) : samples \in [OnDisk -> {0, MaxSamples}]}
  /\ npy = <<>> /\ npz = <<>>
  /\ args = Idle /\ ret = Idle /\ trace = Idle
  /\ prev = <<>> /\ calls = 0

CacheOrLoad ==
  /\ pc = "cache_or_load"
  /\ calls < MaxLoads
  /\ \E i \in 1..4, j \in 1..4, stft \in Stfts :
       LET mix_path == Join("mix", FileNames[i])
           inst_path == Join("inst", FileNames[j])
           r == cache_or_load(npy, mix_path, inst_path, stft)
       IN /\ args' = [mix_path |-> mix_path, inst_path |-> inst_path,
                      stft |-> stft]
          /\ ret' = [raised |-> r.raised, X |-> r.X, y |-> r.y]
          /\ trace' = [decoded |-> r.decoded, written |-> r.written,
                       before |-> DOMAIN npy]
          /\ npy' = r.npy
  /\ prev' = IF calls = 0 THEN <<>> ELSE Append(prev, Record)
  /\ calls' = calls + 1
  /\ UNCHANGED <<pc, npz, wav>>

SpecCache == InitCache /\ [][CacheOrLoad]_vars

LastCall == prev[Len(prev)]

Pad(W, l, r) ==
  [t \in 1..(l + W + r) |-> IF t > l /\ t <= l + W THEN t - l ELSE 0]

\* X_pad[:, :, start:start + cropsize] of the spectrogram X
Window(X, X_pad, start, cropsize) ==
  [spec |-> X, frames |-> PySlice(X_pad, start, start + cropsize)]

(***************************************************************************)
(* make_validation_set                                                     *)
(***************************************************************************)
\* 'cs{}_sr{}_hl{}_nf{}_of{}' / '{}_p{}.npz'
PatchPath(cropsize, stft, offset, basename, j) ==
  [outdir |-> [cs |-> cropsize, sr |-> stft.sr, hl |-> stft.hop_length,
               nf |-> stft.n_fft, of |-> offset],
   base |-> basename, p |-> j, ext |-> ".npz"]

TileCountFloor(width, roi_size) == width \div roi_size

\* int(np.ceil(X.shape[2] / roi_size))
TileCount(width, roi_size) == CeilDiv(width, roi_size)

TileStartCrop(j, roi_size, cropsize) == j * cropsize

\* start = j * roi_size
TileStart(j, roi_size, cropsize) == j * roi_size

AlwaysSave(files, outpath) == TRUE

\* if not os.path.exists(outpath)
ShouldSave(files, outpath) == outpath \notin DOMAIN files

\* the loop over j for one pair, from index j on.  st holds the patches on
\* disk, the patch list and the paths written so far.
RECURSIVE PatchLoop(_, _, _, _, _, _, _)
PatchLoop(st, j, len_dataset, cfg, basename, spectra, padded) ==
  IF j >= len_dataset THEN st
  ELSE LET outpath == PatchPath(cfg.cropsize, cfg.stft, cfg.offset, basename, j)
           start == TileStart(j, padded.roi_size, cfg.cropsize)
           patch == [X |-> Window(spectra.X, padded.X_pad, start, cfg.cropsize),
                     y |-> Window(spectra.y, padded.y_pad, start, cfg.cropsize)]
           save == ShouldSave(st.npz, outpath)
           next == [npz |-> IF save THEN (outpath :> patch) @@ st.npz ELSE st.npz,
                    patch_list |-> Append(st.patch_list, outpath),
                    written |-> IF save THEN st.written \cup {outpath}
                                ELSE st.written]
       IN PatchLoop(next, j + 1, len_dataset, cfg, basename, spectra, padded)

\* the windows the loop over j addresses, whether saved or found on disk
Windows(len_dataset, cfg, padded) ==
  [k \in 1..len_dataset |->
     PySlice(padded.X_pad, TileStart(k - 1, padded.roi_size, cfg.cropsize),
             TileStart(k - 1, padded.roi_size, cfg.cropsize) + cfg.cropsize)]

\* the loop over the file list, from pair i on.  st holds both caches, the
\* patch list, the paths written, the per-pair geometry and the error.
RECURSIVE ValidationLoop(_, _, _, _)
ValidationLoop(st, filelist, i, cfg) ==
  IF i > Len(filelist) \/ st.raised # "" THEN st
  ELSE LET X_path == filelist[i][1]
           y_path == filelist[i][2]
           basename == X_path.base
           c == cache_or_load(st.npy, X_path, y_path, cfg.stft)
       IN IF c.raised # ""
          THEN [st EXCEPT !.raised = c.raised, !.npy = c.npy]
          ELSE LET pd == make_padding(c.X.frames, cfg.cropsize, cfg.offset)
                   padded == [X_pad |-> Pad(c.X.frames, pd.left, pd.right),
                              y_pad |-> Pad(c.y.frames, pd.left, pd.right),
                              roi_size |-> pd.roi_size]
                   len_dataset == TileCount(c.X.frames, pd.roi_size)
                   before == [npz |-> st.npz, patch_list |-> <<>>,
                              written |-> {}]
                   after == PatchLoop(before, 0, len_dataset, cfg, basename,
                                      [X |-> c.X, y |-> c.y], padded)
                   entry == [width |-> c.X.frames, left |-> pd.left,
                             right |-> pd.right, roi_size |-> pd.roi_size,
                             outpaths |-> after.patch_list,
                             windows |-> Windows(len_dataset, cfg, padded)]
               IN ValidationLoop(
                    [npy |-> c.npy, npz |-> after.npz,
                     patch_list |-> st.patch_list \o after.patch_list,
                     written |-> st.written \cup after.written,
                     log |-> Append(st.log, entry),
                     raised |-> ""],
                    filelist, i + 1, cfg)

make_validation_set(filelist, cfg) ==
  ValidationLoop([npy |-> npy, npz |-> npz, patch_list |-> <<>>,
                  written |-> {}, log |-> <<>>, raised |-> ""],
                 filelist, 1, cfg)

\* the file lists of the validation runs: up to two pairs of the data set
ValLists == InjectiveSeqs({PairOf(i) : i \in OnDisk}, 2)

\* one run on varied audio and tiling parameters
InitTiling ==
  /\ pc = "make_validation_set"
  /\ wav \in {WavFiles(samples) : samples \in [OnDisk -> 0..MaxSamples]}
  /\ args \in [filelist : {<<>>}, cropsize : 1..MaxCrop, offset : 0..MaxCrop,
                stft : Stfts]
  /\ 2 * args.offset <= args.cropsize
  /\ npy = <<>> /\ npz = <<>>
  /\ ret = Idle /\ trace = Idle
  /\ prev = <<>> /\ calls = 0

\* several runs with the same tiling parameters
InitRerun ==
  /\ pc = "make_validation_set"
  /\ wav \in {WavFiles(samples) : samples \in [OnDisk -> {0, MaxSamples}]}
  /\ wav[PairOf(3)[1]] = MaxSamples
  /\ args \in [filelist : {<<>>}, cropsize : {2, MaxCrop}, offset : {0, 1},
                stft : {s \in Stfts : s.hop_length = 1}]
  /\ npy = <<>> /\ npz = <<>>
  /\ ret = Idle /\ trace = Idle
  /\ prev = <<>> /\ calls = 0

MakeValidationSet(limit) ==
  /\ pc = "make_validation_set"
  /\ calls < limit
  /\ \E filelist \in ValLists :
       LET r == make_validation_set(filelist, args)
       IN /\ args' = [args EXCEPT !.filelist = filelist]
          /\ ret' = [raised |-> r.raised,
                     filelist |-> IF r.raised = "" THEN r.patch_list ELSE <<>>]
          /\ trace' = [written |-> r.written, log |-> r.log, before |-> npz]
          /\ npy' = r.npy
          /\ npz' = r.npz
  /\ prev' = IF calls = 0 THEN <<>> ELSE Append(prev, Record)
  /\ calls' = calls + 1
  /\ UNCHANGED <<pc, wav>>

SpecTiling == InitTiling /\ [][MakeValidationSet(1)]_vars

SpecRerun == InitRerun /\ [][MakeValidationSet(MaxCalls)]_vars

ValidOffset == 2 * args.offset < args.cropsize

\* the patch paths of the pairs i .. of the log, one pair after the other
RECURSIVE Flatten(_, _)
Flatten(log, i) ==
  IF i > Len(log) THEN <<>> ELSE log[i].outpaths \o Flatten(log, i + 1)

\* C4 (as claimed): a pair whose spectrogram has W frames gets exactly
\* ceil(pad(W) / roi_size) patches, pad(W) = W + left + right.
C4_PatchCountOfPadded ==
  (calls >= 1 /\ ValidOffset) =>
     \A i \in 1..Len(trace.log) :
        LET e == trace.log[i]
        IN Len(e.outpaths) = CeilDiv(e.width + e.left + e.right, e.roi_size)

\* C4 (amended): a pair whose spectrogram has W frames gets exactly
\* ceil(W / roi_size) patches, named {basename}_p0 .. in order, and the data
\* set lists the patches of the pairs one pair after the other.
C4_PatchCountOfWidth ==
  (calls >= 1 /\ ValidOffset) =>
     /\ Len(trace.log) = Len(args.filelist)
     /\ \A i \in 1..Len(trace.log) :
          LET e == trace.log[i]
          IN /\ e.roi_size * Len(e.outpaths) >= e.width
             /\ e.roi_size * (Len(e.outpaths) - 1) < e.width
             /\ \A k \in 1..Len(e.outpaths) :
                  /\ e.outpaths[k].p = k - 1
                  /\ e.outpaths[k].base = args.filelist[i][1].base
     /\ ret.filelist = Flatten(trace.log, 1)

\* a pair of 4 frames tiled with roi_size 2: two patches, where
\* ceil(pad(W) / roi_size) is 3
C4_Witness ==
  /\ calls = 1
  /\ ValidOffset
  /\ Len(trace.log) = 2
  /\ trace.log[1].width = 4
  /\ trace.log[1].roi_size = 2
  /\ Len(trace.log[1].outpaths) = 2
  /\ Len(ret.filelist) > 2

\* C5: with 0 <= offset < cropsize/2, every window (window j starts at
\* padded position j * roi_size) has exactly cropsize frames inside the
\* padded array, and the roi_size frames after the first left frames of
\* window j are the frames j * roi_size .. (j + 1) * roi_size - 1 of the
\* unpadded signal (zero past its end): pairwise disjoint, contiguous, and
\* together covering every frame of [0, W).
C5_TilingCoversSignal ==
  (calls >= 1 /\ ValidOffset) =>
     \A i \in 1..Len(trace.log) :
        LET e == trace.log[i]
        IN /\ e.width >= 1
           /\ Len(e.windows) * e.roi_size >= e.width
           /\ \A k \in 1..Len(e.windows) :
                /\ Len(e.windows[k]) = args.cropsize
                /\ \A t \in 1..e.roi_size :
                     e.windows[k][e.left + t] =
                        IF (k - 1) * e.roi_size + t <= e.width
                        THEN (k - 1) * e.roi_size + t
                        ELSE 0
                /\ (e.outpaths[k] \in trace.written) =>
                     /\ npz[e.outpaths[k]].X.frames = e.windows[k]
                     /\ npz[e.outpaths[k]].y.frames = e.windows[k]

\* a pair of 3 frames tiled with cropsize 3 and offset 1 (roi_size 1): the
\* third window holds the frames 2, 3 and one frame of padding
C5_Witness ==
  /\ calls = 1
  /\ args.cropsize = 3 /\ args.offset = 1
  /\ Len(trace.log) >= 1
  /\ trace.log[1].width = 3
  /\ Len(trace.log[1].windows) = 3
  /\ trace.log[1].windows[3] = <<2, 3, 0>>
  /\ trace.log[1].outpaths[3] \in trace.written

PitchDownBelow == 10    \* p < 0.1
PitchUpBelow == 20      \* p < 0.2
SwapBelow == 50         \* np.random.uniform() < 0.5

PDraws == {5, 15, 50}

\* path.replace(os.path.splitext(path)[1], suffix + '.wav')
Replaced(path, suffix) ==
  [dir |-> path.dir, base |-> path.base \o suffix, ext |-> ".wav"]

\* the pair handed to cache_or_load for the draw p.  str.replace returns a
\* new string and the code binds none of the four results: X_path and
\* y_path stay what the file list holds.
SelectPair(X_path, y_path, p) ==
  LET down == <<Replaced(X_path, "_pitch-1"), Replaced(y_path, "_pitch-1")>>
      up == <<Replaced(X_path, "_pitch1"), Replaced(y_path, "_pitch1")>>
  IN <<X_path, y_path>>

\* X_dataset[idx] after the optional channel swap
TrainPatch(X, X_pad, start, cropsize, swap) ==
  [spec |-> X,
   frames |-> PySlice(X_pad, start, start + cropsize),
   channels |-> IF swap < SwapBelow THEN <<2, 1>> ELSE <<1, 2>>]

\* what one pair can add to st, one result per outcome of the random draws
TrainingPair(st, X_path, y_path, cfg) ==
  UNION {
    LET pair == SelectPair(X_path, y_path, p)
        c == cache_or_load(st.npy, pair[1], pair[2], cfg.stft)
    IN IF c.raised # ""
       THEN {[st EXCEPT !.raised = c.raised, !.npy = c.npy]}
       ELSE LET pd == make_padding(c.X.frames, cfg.cropsize, cfg.offset)
                X_pad == Pad(c.X.frames, pd.left, pd.right)
                y_pad == Pad(c.y.frames, pd.left, pd.right)
                high == Len(X_pad) - cfg.cropsize
                entry == [p |-> p, resolved |-> pair, width |-> c.X.frames,
                          padded_width |-> Len(X_pad), high |-> high]
            IN IF high <= 0
               THEN {[st EXCEPT !.raised = "ValueError", !.npy = c.npy,
                               !.log = Append(st.log, entry)]}
               ELSE {[npy |-> c.npy,
                      X_dataset |-> st.X_dataset \o
                         [j \in 1..cfg.patches |->
                            TrainPatch(c.X, X_pad, starts[j], cfg.cropsize, swap[j])],
                      y_dataset |-> st.y_dataset \o
                         [j \in 1..cfg.patches |->
                            TrainPatch(c.y, y_pad, starts[j], cfg.cropsize, swap[j])],
                      log |-> Append(st.log, entry),
                      raised |-> ""] :
                     starts \in [1..cfg.patches -> 0..(high - 1)],
                     swap \in [1..cfg.patches -> {25, 75}]}
    : p \in PDraws}

\* the results of the loop over the file list, from pair i on
RECURSIVE TrainingLoop(_, _, _, _)
TrainingLoop(st, filelist, i, cfg) ==
  IF i > Len(filelist) \/ st.raised # "" THEN {st}
  ELSE UNION {TrainingLoop(next, filelist, i + 1, cfg) :
                next \in TrainingPair(st, filelist[i][1], filelist[i][2], cfg)}

make_training_set(filelist, cfg) ==
  TrainingLoop([npy |-> npy, X_dataset |-> <<>>, y_dataset |-> <<>>,
                log |-> <<>>, raised |-> ""],
               filelist, 1, cfg)

\* the file lists of the training runs
TrainLists == InjectiveSeqs({PairOf(2), PairOf(3)}, 2)

InitTraining ==
  /\ pc = "make_training_set"
  /\ wav \in {WavFiles(samples) : samples \in [OnDisk -> 0..MaxSamples]}
  /\ wav[PairOf(1)[1]] = 0
  /\ args \in [filelist : TrainLists, cropsize : 1..MaxCrop,
                patches : 1..2, offset : 0..MaxCrop,
                stft : {s \in Stfts : s.hop_length = 1}]
  /\ 2 * args.offset <= args.cropsize
  /\ Len(args.filelist) * args.patches <= 2
  /\ npy = <<>> /\ npz = <<>>
  /\ ret = Idle /\ trace = Idle
  /\ prev = <<>> /\ calls = 0

MakeTrainingSet ==
  /\ pc = "make_training_set"
  /\ calls = 0
  /\ \E r \in make_training_set(args.filelist, args) :
       /\ ret' = [raised |-> r.raised,
                  X_dataset |-> IF r.raised = "" THEN r.X_dataset ELSE <<>>,
                  y_dataset |-> IF r.raised = "" THEN r.y_dataset ELSE <<>>]
       /\ trace' = [log |-> r.log]
       /\ npy' = r.npy
  /\ calls' = calls + 1
  /\ UNCHANGED <<pc, args, npz, wav, prev>>

SpecTraining == InitTraining /\ [][MakeTrainingSet]_vars

\* C7 (as claimed): the pair handed to cache_or_load is the '_pitch-1'
\* variant of both paths when p < 0.1, the '_pitch1' variant when
\* 0.1 <= p < 0.2, and the original pair otherwise.
C7_PitchVariantResolved ==
  calls >= 1 =>
     \A i \in 1..Len(trace.log) :
        LET X_path == args.filelist[i][1]
            y_path == args.filelist[i][2]
            e == trace.log[i]
        IN e.resolved =
             IF e.p < PitchDownBelow
             THEN <<Replaced(X_path, "_pitch-1"), Replaced(y_path, "_pitch-1")>>
             ELSE IF e.p < PitchUpBelow
             THEN <<Replaced(X_path, "_pitch1"), Replaced(y_path, "_pitch1")>>
             ELSE <<X_path, y_path>>

\* C10 (as claimed): with W >= 1, 0 <= offset < cropsize/2 and
\* patches >= 1 the range [0, padded_width - cropsize) of every pair is
\* non-empty, the call returns len(filelist) * patches patches in each
\* array, every patch has exactly cropsize frames of the padded
\* spectrogram, and patch (i - 1) * patches + j comes from pair i.
C10_TrainingPatches ==
  (calls >= 1 /\ ValidOffset) =>
     /\ ret.raised = ""
     /\ Len(trace.log) = Len(args.filelist)
     /\ \A i \in 1..Len(trace.log) : trace.log[i].high > 0
     /\ Len(ret.X_dataset) = Len(args.filelist) * args.patches
     /\ Len(ret.y_dataset) = Len(args.filelist) * args.patches
     /\ \A i \in 1..Len(args.filelist) : \A j \in 1..args.patches :
          LET n == (i - 1) * args.patches + j
          IN /\ Len(ret.X_dataset[n].frames) = args.cropsize
             /\ Len(ret.y_dataset[n].frames) = args.cropsize
             /\ ret.X_dataset[n].spec.src = args.filelist[i][1]
             /\ ret.y_dataset[n].spec.src = args.filelist[i][2]

====
